---- MODULE Spec2Model ----
(***************************************************************************)
(* Device-presence tracking of the AsusRouter integration                  *)
(* (custom_components/asusrouter/router.py): ARConnectedDevice.update,     *)
(* ARDevice.update_devices, ARDevice.connected_device,                     *)
(* ARDevice.remove_trackers and the ARSensorHandler device counters.       *)
(*                                                                         *)
(* Time is an integer number of time units.  Python's None is NoTime for a    *)
(* datetime, NoIp for an address and NoName for a name.  The attributes    *)
(* dictionary of a device is a function whose domain is the set of keys    *)
(* present; connection_time stands for every attribute copied verbatim     *)
(* from the polled record, last_activity is the one the grace period       *)
(* reads.  An identity dictionary is shared by reference between the       *)
(* device and the lists that hold it: a list entry is "live" while the     *)
(* device it came from is tracked (its content is then read from the       *)
(* device) and holds a frozen copy once the device object is dropped.      *)
(***************************************************************************)
EXTENDS Integers, Sequences, FiniteSets, TLC

\* ------------------------------------------------------------------ bounds
MaxTime == 2
ConsiderHome == 1
MaxLimit == 2
MaxSince == 1

\* ------------------------------------------------------- values and inputs
NoTime == -1
NoIp == "None"
NoName == "None"

MACS == {"aa:01", "aa:02", "aa:03"}
RawMacs == {"AA:01", "aa:01", "aa:02"}
RegistryMacs == {"aa:01"}
SinceTimes == {0}

format_mac(raw) ==
    CASE raw = "AA:01" -> "aa:01"
      [] OTHER -> raw

EVENT_DEVICE_CONNECTED == "device_connected"
EVENT_DEVICE_DISCONNECTED == "device_disconnected"
EVENT_DEVICE_RECONNECTED == "device_reconnected"

\* _LOGGER.error("Error connecting to ...") and _LOGGER.info("Reconnected to ...")
LOG_ERROR == "error_connecting"
LOG_RECONNECTED == "reconnected"

SIGNAL_DEVICE_UPDATE == "device-update"
SIGNAL_DEVICE_NEW == "device-new"

DEVICE_ATTRIBUTES == {"connection_time", "last_activity"}

NoAttrs == [k \in {} |-> NoTime]

NoInfo == [present |-> FALSE, online |-> FALSE, ip |-> NoIp, name |-> NoName,
           connected_since |-> NoTime]

OfflineInfo == [present |-> TRUE, online |-> FALSE, ip |-> "ip1", name |-> "n",
                connected_since |-> NoTime]

OnlineInfos ==
    {[present |-> TRUE, online |-> TRUE, ip |-> "ip1", name |-> "n",
      connected_since |-> cs] : cs \in {NoTime} \cup SinceTimes}

DevInfos == {OfflineInfo} \cup OnlineInfos

\* The order in which the router lists the raw MACs.
RawRank(raw) ==
    CASE raw = "AA:01" -> 1
      [] raw = "aa:01" -> 2
      [] OTHER -> 3

\* A polled snapshot: the items of the api_devices dictionary, in insertion
\* order, each a pair <<raw MAC, ConnectedDevice>>; keys are distinct.  The
\* router reports at most two devices.
Snapshots ==
    LET items == RawMacs \X DevInfos
    IN {<<>>} \cup {<<a>> : a \in items}
              \cup {s \in items \X items : RawRank(s[1][1]) < RawRank(s[2][1])}

\* The snapshots of a router with three devices that are online whenever it
\* lists them, and whose connected_since it always knows.
ListInfos ==
    {[present |-> TRUE, online |-> TRUE, ip |-> "ip1", name |-> "n",
      connected_since |-> cs] : cs \in 0..MaxSince}

ListSnapshots ==
    LET pick == [MACS -> {NoInfo} \cup ListInfos]
        Items(f) == SelectSeq(<<<<"aa:01", f["aa:01"]>>, <<"aa:02", f["aa:02"]>>,
                                <<"aa:03", f["aa:03"]>>>>,
                              LAMBDA item : item[2].present)
    IN {Items(f) : f \in pick}

\* The trackers found in the entity registry at setup, in order.
Registries == {<<>>} \cup {<<m>> : m \in RegistryMacs}

\* ------------------------------------------------------ ARConnectedDevice
\* ARConnectedDevice.__init__
NewDevice(mac, name) ==
    [connected |-> FALSE,
     ip |-> NoIp,
     name |-> name,
     attrs |-> NoAttrs,
     identity |-> [mac |-> mac, ip |-> NoIp, name |-> name, connected |-> NoTime]]

\* self._extra_state_attributes[key] = value
SetAttr(attrs, key, value) ==
    [k \in DOMAIN attrs \cup {key} |-> IF k = key THEN value ELSE attrs[k]]

\* for el in DEVICE_ATTRIBUTES: self._extra_state_attributes[el] = None
ResetAttrs(attrs) ==
    [k \in DOMAIN attrs \cup DEVICE_ATTRIBUTES |->
        IF k \in DEVICE_ATTRIBUTES THEN NoTime ELSE attrs[k]]

\* DEVICE_ATTRIBUTE_LAST_ACTIVITY in attrs and attrs[...] is not None
LastActivityKnown(d) ==
    /\ "last_activity" \in DOMAIN d.attrs
    /\ d.attrs["last_activity"] # NoTime

\* dev_info.connected_since or self.identity[CONNECTED] or utc_point_in_time
ConnectedTime(since, old, utc) ==
    IF since # NoTime THEN since
    ELSE IF old # NoTime THEN old
    ELSE utc

\* The online branch firing device_reconnected whether or not the device was
\* connected before.
UpdateOnline_AlwaysFires(d, info, utc) ==
    [dev |-> [d EXCEPT
                !.name = info.name,
                !.ip = info.ip,
                !.attrs = SetAttr(SetAttr(@, "connection_time", info.connected_since),
                                  "last_activity", utc),
                !.identity = [@ EXCEPT
                    !.name = info.name,
                    !.ip = info.ip,
                    !.connected = ConnectedTime(info.connected_since, @, utc)],
                !.connected = TRUE],
     events |-> <<EVENT_DEVICE_RECONNECTED>>,
     connected_call |-> (d.connected = FALSE),
     raised |-> FALSE]

\* The online branch of ARConnectedDevice.update.
UpdateOnline(d, info, utc) ==
    [dev |-> [d EXCEPT
                !.name = info.name,
                !.ip = info.ip,
                !.attrs = SetAttr(SetAttr(@, "connection_time", info.connected_since),
                                  "last_activity", utc),
                !.identity = [@ EXCEPT
                    !.name = info.name,
                    !.ip = info.ip,
                    !.connected = ConnectedTime(info.connected_since, @, utc)],
                !.connected = TRUE],
     events |-> IF d.connected = FALSE THEN <<EVENT_DEVICE_RECONNECTED>> ELSE <<>>,
     connected_call |-> (d.connected = FALSE),
     raised |-> FALSE]

\* The offline branch without the consider_home comparison.
UpdateOffline_NoGrace(d, info, consider_home, utc) ==
    LET named == [d EXCEPT !.name = info.name, !.identity.name = info.name]
    IN IF LastActivityKnown(d)
       THEN [dev |-> [named EXCEPT !.connected = FALSE,
                                   !.ip = NoIp,
                                   !.attrs = ResetAttrs(@)],
             events |-> IF d.connected = TRUE
                        THEN <<EVENT_DEVICE_DISCONNECTED>> ELSE <<>>,
             connected_call |-> FALSE,
             raised |-> FALSE]
       ELSE [dev |-> named, events |-> <<>>, connected_call |-> FALSE,
             raised |-> FALSE]

\* The branch of ARConnectedDevice.update for a record with online false.
UpdateOffline(d, info, consider_home, utc) ==
    LET named == [d EXCEPT !.name = info.name, !.identity.name = info.name]
    IN IF /\ LastActivityKnown(d)
          /\ utc - d.attrs["last_activity"] > consider_home
       THEN [dev |-> [named EXCEPT !.connected = FALSE,
                                   !.ip = NoIp,
                                   !.attrs = ResetAttrs(@)],
             events |-> IF d.connected = TRUE
                        THEN <<EVENT_DEVICE_DISCONNECTED>> ELSE <<>>,
             connected_call |-> FALSE,
             raised |-> FALSE]
       ELSE [dev |-> named, events |-> <<>>, connected_call |-> FALSE,
             raised |-> FALSE]

\* The branch of ARConnectedDevice.update for a device missing from the
\* snapshot.  utc - None raises TypeError (a missing key, KeyError) before
\* anything is assigned.
UpdateAbsent(d, consider_home, utc) ==
    IF ~d.connected
    THEN [dev |-> d, events |-> <<>>, connected_call |-> FALSE, raised |-> FALSE]
    ELSE IF ~LastActivityKnown(d)
    THEN [dev |-> d, events |-> <<>>, connected_call |-> FALSE, raised |-> TRUE]
    ELSE LET still == (utc - d.attrs["last_activity"] < consider_home)
         IN [dev |-> [d EXCEPT !.connected = still,
                               !.ip = NoIp,
                               !.attrs = ResetAttrs(@)],
             events |-> IF still = FALSE
                        THEN <<EVENT_DEVICE_DISCONNECTED>> ELSE <<>>,
             connected_call |-> FALSE,
             raised |-> FALSE]

\* ARConnectedDevice.update(dev_info, consider_home, event_call, connected_call)
\* at time utc: the device afterwards, the events it fires, whether it calls
\* connected_call, whether it raises.
DeviceUpdate(d, info, consider_home, utc) ==
    IF info.present
    THEN IF info.online
         THEN UpdateOnline(d, info, utc)
         ELSE UpdateOffline(d, info, consider_home, utc)
    ELSE UpdateAbsent(d, consider_home, utc)

\* ------------------------------------------------- identity dictionaries
\* A list entry referring to the identity dictionary of the tracked device mac.
LiveEntry(mac) ==
    [mac |-> mac, live |-> TRUE,
     identity |-> [mac |-> mac, ip |-> NoIp, name |-> NoName, connected |-> NoTime]]

\* The content of the identity dictionary a list entry refers to.
IdentityOf(e, ds) == IF e.live THEN ds[e.mac].identity ELSE e.identity

\* The entry once the device object it came from is no longer tracked: its
\* identity dictionary stays in the lists and is not written any more.
Freeze(e, ds, dropped) ==
    IF e.live /\ e.mac \in dropped
    THEN [mac |-> e.mac, live |-> FALSE, identity |-> ds[e.mac].identity]
    ELSE e

FreezeAll(lst, ds, dropped) == [i \in 1..Len(lst) |-> Freeze(lst[i], ds, dropped)]

\* The contents of a list of identity dictionaries.
Contents(lst, ds) == [i \in 1..Len(lst) |-> IdentityOf(lst[i], ds)]

\* ARDevice.connected_device_time
connected_device_time(e, ds) == IdentityOf(e, ds).connected

\* ------------------------------------------------ ARDevice.connected_device
RemoveAt(lst, i) == SubSeq(lst, 1, i - 1) \o SubSeq(lst, i + 1, Len(lst))

\* list.remove(x): drops the first element equal to x.
ListRemove(lst, x, ds) ==
    LET hits == {i \in 1..Len(lst) : IdentityOf(lst[i], ds) = IdentityOf(x, ds)}
    IN IF hits = {} THEN lst
       ELSE RemoveAt(lst, CHOOSE i \in hits : \A j \in hits : i <= j)

\* for device in list: if device.get(MAC) == mac: list.remove(device)
\* The iterator keeps its index while the list shrinks under it.
RECURSIVE RemoveLoop(_, _, _, _)
RemoveLoop(lst, i, mac, ds) ==
    IF i > Len(lst) THEN lst
    ELSE IF IdentityOf(lst[i], ds).mac = mac
    THEN RemoveLoop(ListRemove(lst, lst[i], ds), i + 1, mac, ds)
    ELSE RemoveLoop(lst, i + 1, mac, ds)

\* Insert e behind every element whose key is not greater (a stable sort step).
InsertByTime(sorted, e, ds) ==
    LET k == connected_device_time(e, ds)
        n == Cardinality({i \in 1..Len(sorted) :
                            \A j \in 1..i : connected_device_time(sorted[j], ds) <= k})
    IN SubSeq(sorted, 1, n) \o <<e>> \o SubSeq(sorted, n + 1, Len(sorted))

\* The list left in the order it has.
SortByTime_Unsorted(lst, ds) == lst

\* list.sort(key=self.connected_device_time)
RECURSIVE SortByTime(_, _)
SortByTime(lst, ds) ==
    IF lst = <<>> THEN <<>>
    ELSE InsertByTime(SortByTime(SubSeq(lst, 1, Len(lst) - 1), ds), lst[Len(lst)], ds)

\* The size check off by one: the list is cut to one entry more than the limit.
RECURSIVE TrimToLimit_OffByOne(_, _)
TrimToLimit_OffByOne(lst, limit) ==
    IF Len(lst) > limit + 1 THEN TrimToLimit_OffByOne(Tail(lst), limit) ELSE lst

\* while len(list) > limit: list.pop(0)
RECURSIVE TrimToLimit(_, _)
TrimToLimit(lst, limit) ==
    IF Len(lst) > limit THEN TrimToLimit(Tail(lst), limit) ELSE lst

\* ARDevice.connected_device(identity), identity being the dictionary of the
\* tracked device mac; latest is [list, time].  limit >= 1.
ConnectedDevice(latest, ds, mac, limit) ==
    IF mac = "" THEN latest
    ELSE LET removed == RemoveLoop(latest.list, 1, mac, ds)
             sorted == SortByTime(removed, ds)
             added == Append(sorted, LiveEntry(mac))
             kept == TrimToLimit(added, limit)
         IN [list |-> kept,
             time |-> IdentityOf(kept[Len(kept)], ds).connected]

\* ------------------------------------------------- ARDevice.update_devices
\* wrt_devices = {format_mac(mac): dev for mac, dev in api_devices.items()}:
\* a key seen again keeps its place and takes the later value.
RECURSIVE WrtDevices(_)
WrtDevices(api) ==
    IF api = <<>> THEN <<>>
    ELSE LET rest == WrtDevices(SubSeq(api, 1, Len(api) - 1))
             item == api[Len(api)]
             mac == format_mac(item[1])
             hits == {i \in 1..Len(rest) : rest[i][1] = mac}
         IN IF hits = {} THEN Append(rest, <<mac, item[2]>>)
            ELSE [rest EXCEPT ![CHOOSE i \in hits : TRUE] = <<mac, item[2]>>]

WrtKeys(wrt) == {wrt[i][1] : i \in 1..Len(wrt)}

\* wrt_devices.pop(device_mac, None): the value popped
WrtGet(wrt, mac) ==
    IF mac \in WrtKeys(wrt)
    THEN wrt[CHOOSE i \in 1..Len(wrt) : wrt[i][1] = mac][2]
    ELSE NoInfo

\* wrt_devices once the keys in macs have been popped
WrtWithout(wrt, macs) == SelectSeq(wrt, LAMBDA item : item[1] \notin macs)

\* What a snapshot says of a MAC.
Seen(wrt, mac) ==
    LET info == WrtGet(wrt, mac)
    IN IF ~info.present THEN "absent"
       ELSE IF info.online THEN "online" ELSE "offline"

\* One device.update(...) call of update_devices on the device ds[mac], with
\* the callbacks fire_event and connected_device; st is the state the loop
\* has built so far.
UpdateOne(st, mac, info, consider_home, utc, limit) ==
    LET r == DeviceUpdate(st.devs[mac], info, consider_home, utc)
        ds == [st.devs EXCEPT ![mac] = r.dev]
        latest == IF r.connected_call
                  THEN ConnectedDevice(st.latest, ds, mac, limit)
                  ELSE st.latest
    IN [devs |-> ds,
        latest |-> latest,
        events |-> st.events \o [i \in 1..Len(r.events) |-> <<r.events[i], mac>>],
        calls |-> IF r.connected_call
                  THEN Append(st.calls,
                              [mac |-> mac,
                               before |-> Contents(st.latest.list, ds),
                               after |-> Contents(latest.list, ds)])
                  ELSE st.calls,
        raised |-> r.raised,
        order |-> st.order,
        new |-> st.new,
        lastEvent |-> IF r.events # <<>>
                      THEN [st.lastEvent EXCEPT ![mac] = r.events[Len(r.events)]]
                      ELSE st.lastEvent,
        lastSeen |-> IF info.present /\ info.online
                     THEN [st.lastSeen EXCEPT ![mac] = utc]
                     ELSE st.lastSeen]

\* for device_mac, device in self._devices.items(): device.update(...)
\* An exception leaves the loop, and update_devices, where it is raised.
RECURSIVE UpdateTracked(_, _, _, _, _, _, _)
UpdateTracked(st, order, i, wrt, consider_home, utc, limit) ==
    IF i > Len(order) \/ st.raised THEN st
    ELSE UpdateTracked(
            UpdateOne(st, order[i], WrtGet(wrt, order[i]), consider_home, utc, limit),
            order, i + 1, wrt, consider_home, utc, limit)

\* The second loop adding only the devices that are online.
RECURSIVE UpdateNew_OnlineOnly(_, _, _, _, _)
UpdateNew_OnlineOnly(st, wrt, i, utc, limit) ==
    IF i > Len(wrt) THEN st
    ELSE IF ~wrt[i][2].online
    THEN UpdateNew_OnlineOnly(st, wrt, i + 1, utc, limit)
    ELSE LET mac == wrt[i][1]
             made == [st EXCEPT !.devs = (mac :> NewDevice(mac, NoName)) @@ @,
                                !.order = Append(@, mac),
                                !.new = Append(@, mac)]
         IN UpdateNew_OnlineOnly(UpdateOne(made, mac, wrt[i][2], 0, utc, limit),
                                 wrt, i + 1, utc, limit)

\* for device_mac, dev_info in wrt_devices.items(): each device left in the
\* snapshot is created, updated with the default consider_home of
\* ARConnectedDevice.update, 0, stored in _devices and appended to new_devices.
RECURSIVE UpdateNew(_, _, _, _, _)
UpdateNew(st, wrt, i, utc, limit) ==
    IF i > Len(wrt) THEN st
    ELSE LET mac == wrt[i][1]
             made == [st EXCEPT !.devs = (mac :> NewDevice(mac, NoName)) @@ @,
                                !.order = Append(@, mac),
                                !.new = Append(@, mac)]
         IN UpdateNew(UpdateOne(made, mac, wrt[i][2], 0, utc, limit),
                      wrt, i + 1, utc, limit)

\* A recount that does not look at is_connected: every tracked device.
ConnectedList_AllTracked(order, ds) ==
    [i \in 1..Len(order) |-> LiveEntry(order[i])]

\* self._connected_devices_list: the identities of the connected devices
ConnectedList(order, ds) ==
    LET on == SelectSeq(order, LAMBDA mac : ds[mac].connected)
    IN [i \in 1..Len(on) |-> LiveEntry(on[i])]

\* ARSensorHandler.update_device_count: whether anything differs.  The
\* latest-connected list is the one list object on both sides.
CountChanged(h, count, lst, latest, ds) ==
    ~ (/\ h.count = count
       /\ Contents(h.list, ds) = Contents(lst, ds)
       /\ h.latest = latest)

\* ------------------------------------------------------ binary_sensor.py
\* The config entries of the integration.
ENTRIES == {"entry1", "entry2", "entry3"}

\* entry.options as async_setup_entry reads them, the default applied.
EntryOptions == [enable_control : BOOLEAN, hide_passwords : BOOLEAN]

PASSWORD == "password"

\* A dictionary of sensor descriptions: key (group, index) -> description.
\* A description is told apart by what it does with the password attribute.
Descriptions(group, n, what) == [k \in {<<group, i>> : i \in 1..n} |-> what]

\* BINARY_SENSORS as the module defines it: the WAN status sensor.
WanSensors == Descriptions("wan", 1, "plain")

BINARY_SENSORS_PARENTAL_CONTROL == Descriptions("parental_control", 1, "plain")

list_sensors_vpn_clients(n) == Descriptions("vpn_client", n, "plain")

list_sensors_vpn_servers(n) == Descriptions("vpn_server", n, "plain")

list_sensors_wlan(n, hide) ==
    Descriptions("wlan", n, IF PASSWORD \in hide THEN "password_hidden"
                                                ELSE "with_password")

list_sensors_gwlan(n, hide) ==
    Descriptions("gwlan", n, IF PASSWORD \in hide THEN "password_hidden"
                                                 ELSE "with_password")

\* dict.update(new): the keys of new take the values of new.
DictUpdate(d, new) == new @@ d

\* The dictionary async_setup_entry hands over when it starts from sensors.
SetupSensors(sensors, opts) ==
    LET hide == IF opts.hide_passwords THEN {PASSWORD} ELSE {}
    IN IF ~opts.enable_control
       THEN DictUpdate(
              DictUpdate(
                DictUpdate(
                  DictUpdate(
                    DictUpdate(sensors, list_sensors_vpn_clients(5)),
                    list_sensors_vpn_servers(5)),
                  list_sensors_wlan(3, hide)),
                list_sensors_gwlan(3, hide)),
              BINARY_SENSORS_PARENTAL_CONTROL)
       ELSE sensors

VARIABLES
    now,            \* dt_util.utcnow()
    phase,          \* "setup" before ARDevice.setup has run, then "running"
    options,        \* the entry options read by the tracker
    devOrder,       \* insertion order of the keys of ARDevice._devices
    devs,           \* ARDevice._devices: MAC -> ARConnectedDevice
    connCount,      \* ARDevice._connected_devices
    connList,       \* ARDevice._connected_devices_list
    latestList,     \* ARDevice._latest_connected_list
    latestTime,     \* ARDevice._latest_connected
    connectError,   \* ARDevice._connect_error
    handler,        \* ARSensorHandler counters, once initialised
    rtPending,      \* remove_trackers is awaiting its update_devices
    lastOp,         \* the step just taken, and how it ended if it was a poll
    pollSeen,       \* what the snapshot of the step just taken said of each MAC
    pollEvents,     \* events fired by the step just taken, in order
    pollSignals,    \* dispatcher signals sent by the step just taken, in order
    pollRefresh,    \* the step just taken requested a coordinator refresh
    pollCalls,      \* connected_device calls of the step just taken
    pollLogs,       \* error and info messages logged by the step just taken
    lastFetch,      \* how the fetch of the most recent update_devices ended
    lastEvent,      \* last presence event fired for each tracked device
    lastSeen,       \* when each tracked device's activity was last recorded
    BINARY_SENSORS, \* binary_sensor.BINARY_SENSORS, the module's dictionary
    entryOptions,   \* the options each entry set up was last set up with
    handed          \* the descriptions last handed to async_setup_ar_entry for it

trackerVars == <<now, phase, options, devOrder, devs, connCount, connList,
                 latestList, latestTime, connectError, handler, rtPending,
                 lastOp, pollSeen, pollEvents, pollSignals, pollRefresh,
                 pollCalls, pollLogs, lastFetch, lastEvent, lastSeen>>

sensorVars == <<BINARY_SENSORS, entryOptions, handed>>

vars == <<trackerVars, sensorVars>>

Tracked == DOMAIN devs

PollOps == {"ok", "update_failed", "type_error"}

\* No update_devices has outputs still to be delivered.
Idle == lastOp \notin PollOps

NoneSeen == [m \in MACS |-> "none"]

\* ARDevice.__init__, and the trackers ARDevice.setup loads from the entity
\* registry before its first update_devices.
InitWith(consider_homes, registries) ==
    /\ now = 0
    /\ phase = "setup"
    /\ options \in [consider_home : consider_homes, latest_connected : 1..MaxLimit]
    /\ devOrder \in registries
    /\ devs = [m \in {devOrder[i] : i \in 1..Len(devOrder)} |-> NewDevice(m, "n")]
    /\ connCount = 0
    /\ connList = <<>>
    /\ latestList = <<>>
    /\ latestTime = NoTime
    /\ connectError = FALSE
    /\ handler = [set |-> FALSE, count |-> 0, list |-> <<>>, latest |-> NoTime]
    /\ rtPending = FALSE
    /\ lastOp = "init"
    /\ pollSeen = NoneSeen
    /\ pollEvents = <<>>
    /\ pollSignals = <<>>
    /\ pollRefresh = FALSE
    /\ pollCalls = <<>>
    /\ pollLogs = <<>>
    /\ lastFetch = "none"
    /\ lastEvent = [m \in MACS |-> "none"]
    /\ lastSeen = [m \in MACS |-> NoTime]
    /\ BINARY_SENSORS = WanSensors
    /\ entryOptions = [e \in {} |-> {}]
    /\ handed = [e \in {} |-> {}]

Init == InitWith({ConsiderHome}, Registries)

\* update_devices from the point where the bridge has returned api_devices,
\* up to the recount of the connected devices and the dispatcher signals:
\* the state it leaves.  An exception raised in the first loop leaves
\* update_devices before the new devices, the recount and the signals.
Reconcile(api) ==
    LET wrt == WrtDevices(api)
        limit == options.latest_connected
        st0 == [devs |-> devs,
                latest |-> [list |-> latestList, time |-> latestTime],
                events |-> <<>>, calls |-> <<>>, raised |-> FALSE,
                order |-> devOrder, new |-> <<>>,
                lastEvent |-> lastEvent, lastSeen |-> lastSeen]
        st1 == UpdateTracked(st0, devOrder, 1, wrt, options.consider_home, now, limit)
        st2 == UpdateNew(st1, WrtWithout(wrt, Tracked), 1, now, limit)
        lst == ConnectedList(st2.order, st2.devs)
        seen == [m \in MACS |-> Seen(wrt, m)]
    IN IF st1.raised
       THEN st1 @@ [connCount |-> connCount, connList |-> connList,
                    signals |-> <<>>, seen |-> seen]
       ELSE [st2 EXCEPT
                !.events = @ \o [i \in 1..Len(st2.new) |->
                                    <<EVENT_DEVICE_CONNECTED, st2.new[i]>>]] @@
            [connCount |-> Len(lst), connList |-> lst,
             signals |-> IF st2.new # <<>>
                         THEN <<SIGNAL_DEVICE_UPDATE, SIGNAL_DEVICE_NEW>>
                         ELSE <<SIGNAL_DEVICE_UPDATE>>,
             seen |-> seen]

\* What update_devices assigns, after a fetch that returned, up to the recount
\* of the connected devices; r is Reconcile(api).
Reconciled(r) ==
    /\ connectError' = FALSE
    /\ devs' = r.devs
    /\ devOrder' = r.order
    /\ latestList' = r.latest.list
    /\ latestTime' = r.latest.time
    /\ connCount' = r.connCount
    /\ connList' = r.connList
    /\ lastOp' = IF r.raised THEN "type_error" ELSE "ok"
    /\ pollSeen' = r.seen
    /\ pollEvents' = r.events
    /\ pollSignals' = r.signals
    /\ pollCalls' = r.calls
    /\ pollLogs' = IF connectError THEN <<LOG_RECONNECTED>> ELSE <<>>
    /\ lastFetch' = "ok"
    /\ lastEvent' = r.lastEvent
    /\ lastSeen' = r.lastSeen

\* update_devices after a fetch that returned api_devices;
\* _update_unpolled_sensors asks for a refresh when the handler exists and its
\* counters differ.
FetchReturned(api) ==
    \E r \in {Reconcile(api)} :
       \E changed \in {/\ ~r.raised
                       /\ handler.set
                       /\ CountChanged(handler, r.connCount, r.connList,
                                       r.latest.time, r.devs)} :
          /\ Reconciled(r)
          /\ handler' = IF changed
                        THEN [set |-> TRUE, count |-> r.connCount,
                              list |-> r.connList, latest |-> r.latest.time]
                        ELSE handler
          /\ pollRefresh' = changed

\* A failed fetch treated as an empty snapshot: every device is marked not
\* connected.
FetchFailed_MarksOffline ==
    /\ connectError' = TRUE
    /\ lastOp' = "update_failed"
    /\ pollSeen' = NoneSeen
    /\ pollEvents' = <<>>
    /\ pollSignals' = <<>>
    /\ pollRefresh' = FALSE
    /\ pollCalls' = <<>>
    /\ pollLogs' = IF connectError THEN <<>> ELSE <<LOG_ERROR>>
    /\ lastFetch' = "failed"
    /\ devs' = [m \in Tracked |-> [devs[m] EXCEPT !.connected = FALSE]]
    /\ UNCHANGED <<devOrder, latestList, latestTime, connCount, connList,
                   handler, lastEvent, lastSeen>>

\* A failed fetch that logs the error whether or not the flag is already set.
FetchFailed_LogsEveryFailure ==
    /\ connectError' = TRUE
    /\ lastOp' = "update_failed"
    /\ pollSeen' = NoneSeen
    /\ pollEvents' = <<>>
    /\ pollSignals' = <<>>
    /\ pollRefresh' = FALSE
    /\ pollCalls' = <<>>
    /\ pollLogs' = <<LOG_ERROR>>
    /\ lastFetch' = "failed"
    /\ UNCHANGED <<devs, devOrder, latestList, latestTime, connCount, connList,
                   handler, lastEvent, lastSeen>>

\* update_devices when the fetch raises UpdateFailed.
FetchFailed ==
    /\ connectError' = TRUE
    /\ lastOp' = "update_failed"
    /\ pollSeen' = NoneSeen
    /\ pollEvents' = <<>>
    /\ pollSignals' = <<>>
    /\ pollRefresh' = FALSE
    /\ pollCalls' = <<>>
    /\ pollLogs' = IF connectError THEN <<>> ELSE <<LOG_ERROR>>
    /\ lastFetch' = "failed"
    /\ UNCHANGED <<devs, devOrder, latestList, latestTime, connCount, connList,
                   handler, lastEvent, lastSeen>>

\* ARDevice.setup: the first update_devices, with a fetch that returns, then
\* init_sensors_coordinator, which creates the handler with the counters.
SetupWith(snapshots) ==
    /\ phase = "setup"
    /\ \E api \in snapshots :
          \E r \in {Reconcile(api)} :
             /\ Reconciled(r)
          /\ handler' = [set |-> TRUE, count |-> r.connCount,
                            list |-> r.connList, latest |-> r.latest.time]
             /\ pollRefresh' = FALSE
    /\ phase' = "running"
    /\ UNCHANGED sensorVars
    /\ UNCHANGED <<now, options, rtPending>>

SetupPolled == SetupWith(Snapshots)

\* ARDevice.setup with a first fetch that raises UpdateFailed.
SetupFailed ==
    /\ phase = "setup"
    /\ connectError' = TRUE
    /\ handler' = [set |-> TRUE, count |-> connCount, list |-> connList,
                   latest |-> latestTime]
    /\ lastOp' = "update_failed"
    /\ pollSeen' = NoneSeen
    /\ pollEvents' = <<>>
    /\ pollSignals' = <<>>
    /\ pollRefresh' = FALSE
    /\ pollCalls' = <<>>
    /\ pollLogs' = IF connectError THEN <<>> ELSE <<LOG_ERROR>>
    /\ lastFetch' = "failed"
    /\ phase' = "running"
    /\ UNCHANGED sensorVars
    /\ UNCHANGED <<now, options, rtPending, devs, devOrder, latestList, latestTime,
                   connCount, connList, lastEvent, lastSeen>>

\* ARDevice.update_all, the timer's poll, with a fetch that returns.
UpdateAllWith(snapshots) ==
    /\ phase = "running"
    /\ Idle
    /\ ~rtPending
    /\ \E api \in snapshots : FetchReturned(api)
    /\ UNCHANGED sensorVars
    /\ UNCHANGED <<now, phase, options, rtPending>>

UpdateAllPolled == UpdateAllWith(Snapshots)

\* ARDevice.update_all with a fetch that raises UpdateFailed.
UpdateAllFailed ==
    /\ phase = "running"
    /\ Idle
    /\ ~rtPending
    /\ FetchFailed
    /\ UNCHANGED sensorVars
    /\ UNCHANGED <<now, phase, options, rtPending>>

\* ARDevice.remove_trackers up to its await of update_devices: the trackers
\* of the given MACs are dropped from _devices.  A call that names no tracked
\* device is update_devices alone.  In Spec the steps other tasks take while
\* remove_trackers awaits its update_devices are taken before this one or
\* after the awaited poll; OverlapSpec adds the timer's polls that reconcile
\* in between.
RemoveTrackers ==
    /\ phase = "running"
    /\ Idle
    /\ ~rtPending
    /\ \E gone \in (SUBSET Tracked) \ {{}} :
          /\ devs' = [m \in Tracked \ gone |-> devs[m]]
          /\ devOrder' = SelectSeq(devOrder, LAMBDA m : m \notin gone)
          /\ connList' = FreezeAll(connList, devs, gone)
          /\ latestList' = FreezeAll(latestList, devs, gone)
          /\ handler' = [handler EXCEPT !.list = FreezeAll(@, devs, gone)]
          /\ lastEvent' = [m \in MACS |-> IF m \in gone THEN "none" ELSE lastEvent[m]]
          /\ lastSeen' = [m \in MACS |-> IF m \in gone THEN NoTime ELSE lastSeen[m]]
    /\ rtPending' = TRUE
    /\ lastOp' = "idle"
    /\ pollSeen' = NoneSeen
    /\ pollEvents' = <<>>
    /\ pollSignals' = <<>>
    /\ pollRefresh' = FALSE
    /\ pollCalls' = <<>>
    /\ pollLogs' = <<>>
    /\ UNCHANGED lastFetch
    /\ UNCHANGED sensorVars
    /\ UNCHANGED <<now, phase, options, connCount, latestTime, connectError>>

\* The update_devices remove_trackers awaits, with a fetch that returns.
RemoveTrackersUpdateWith(snapshots) ==
    /\ rtPending
    /\ Idle
    /\ \E api \in snapshots : FetchReturned(api)
    /\ rtPending' = FALSE
    /\ UNCHANGED sensorVars
    /\ UNCHANGED <<now, phase, options>>

RemoveTrackersPolled == RemoveTrackersUpdateWith(Snapshots)

\* The update_devices remove_trackers awaits, with a fetch that raises
\* UpdateFailed.
RemoveTrackersFailed ==
    /\ rtPending
    /\ Idle
    /\ FetchFailed
    /\ rtPending' = FALSE
    /\ UNCHANGED sensorVars
    /\ UNCHANGED <<now, phase, options>>

\* Time passes.
Tick ==
    /\ Idle
    /\ ~rtPending
    /\ now < MaxTime
    /\ now' = now + 1
    /\ UNCHANGED sensorVars
    /\ lastOp' = "idle"
    /\ pollSeen' = NoneSeen
    /\ pollEvents' = <<>>
    /\ pollSignals' = <<>>
    /\ pollRefresh' = FALSE
    /\ pollCalls' = <<>>
    /\ pollLogs' = <<>>
    /\ UNCHANGED lastFetch
    /\ UNCHANGED <<phase, options, devOrder, devs, connCount, connList, latestList,
                   latestTime, connectError, handler, rtPending, lastEvent,
                   lastSeen>>

\* update_devices hands control back: its events, signals and refresh request
\* have been delivered.
Returned ==
    /\ lastOp \in PollOps
    /\ lastOp' = "idle"
    /\ pollSeen' = NoneSeen
    /\ pollEvents' = <<>>
    /\ pollSignals' = <<>>
    /\ pollRefresh' = FALSE
    /\ pollCalls' = <<>>
    /\ pollLogs' = <<>>
    /\ UNCHANGED lastFetch
    /\ UNCHANGED sensorVars
    /\ UNCHANGED <<now, phase, options, devOrder, devs, connCount, connList,
                   latestList, latestTime, connectError, handler, rtPending,
                   lastEvent, lastSeen>>

Next ==
    \/ SetupPolled
    \/ SetupFailed
    \/ UpdateAllPolled
    \/ UpdateAllFailed
    \/ RemoveTrackers
    \/ RemoveTrackersPolled
    \/ RemoveTrackersFailed
    \/ Returned
    \/ Tick

Spec == Init /\ [][Next]_vars

\* ---------------------------------------- the latest-connected list alone
\* The same tracker with consider_home 0, against a router with three devices
\* that never fails and whose polls all fall in one second: a device missing
\* from a snapshot is disconnected at once, and connects again when listed.
ListInit == InitWith({0}, {<<>>})

ListSetupPolled == SetupWith(ListSnapshots)

ListUpdateAllPolled == UpdateAllWith(ListSnapshots)

ListRemoveTrackersPolled == RemoveTrackersUpdateWith(ListSnapshots)

ListNext ==
    \/ ListSetupPolled
    \/ ListUpdateAllPolled
    \/ RemoveTrackers
    \/ ListRemoveTrackersPolled
    \/ Returned

ListSpec == ListInit /\ [][ListNext]_vars

\* ------------------------------------------------------ overlapping polls
\* The timer's update_devices reconciling while remove_trackers awaits its
\* own: its fetch returns after the trackers were dropped and before the
\* fetch remove_trackers waits for.  Nothing is awaited between the return of
\* a fetch and the recount, so the two reconciliations never interleave.
OverlapUpdateAllPolled ==
    /\ phase = "running"
    /\ Idle
    /\ rtPending
    /\ \E api \in Snapshots : FetchReturned(api)
    /\ UNCHANGED sensorVars
    /\ UNCHANGED <<now, phase, options, rtPending>>

OverlapNext ==
    \/ Next
    \/ OverlapUpdateAllPolled

OverlapSpec == Init /\ [][OverlapNext]_vars

\* ------------------------------------------- binary-sensor platform setup
\* binary_sensor.async_setup_entry for one config entry, first set up or
\* reloaded, with the options it has then.
async_setup_entry ==
    \E entry \in ENTRIES : \E opts \in EntryOptions :
       \E sensors \in {SetupSensors(BINARY_SENSORS, opts)} :
          /\ BINARY_SENSORS' = sensors
          /\ entryOptions' = (entry :> opts) @@ entryOptions
          /\ handed' = (entry :> sensors) @@ handed
          /\ UNCHANGED trackerVars

SensorInit == InitWith({ConsiderHome}, {<<>>})

SensorNext == async_setup_entry

SensorSpec == SensorInit /\ [][SensorNext]_vars

\* ------------------------------------------------------------ properties
\* The step just taken was an update_devices whose fetch returned a snapshot.
Polled == lastOp \in {"ok", "type_error"}

\* How many times the step just taken fired the event for the device.
Fired(events, event, mac) ==
    Cardinality({i \in 1..Len(events) : events[i] = <<event, mac>>})

IsConnected(ds, mac) == mac \in DOMAIN ds /\ ds[mac].connected

\* The MACs, normalised, of the snapshot of the step just taken.
SnapshotMacs(seen) == {m \in MACS : seen[m] \in {"online", "offline"}}

\* The state is consistent: a live list entry refers to a tracked device, the
\* order lists the tracked devices once each.
TypeOK ==
    /\ now \in 0..MaxTime
    /\ {devOrder[i] : i \in 1..Len(devOrder)} = Tracked
    /\ Len(devOrder) = Cardinality(Tracked)
    /\ \A i \in 1..Len(latestList) : latestList[i].live => latestList[i].mac \in Tracked
    /\ \A i \in 1..Len(connList) : connList[i].live => connList[i].mac \in Tracked
    /\ \A i \in 1..Len(handler.list) :
          handler.list[i].live => handler.list[i].mac \in Tracked
    /\ lastFetch \in {"none", "ok", "failed"}
    /\ pollLogs \in {<<>>, <<LOG_ERROR>>, <<LOG_RECONNECTED>>}

\* C1 - Grace period (safety): a successful poll at a time less than
\* consider_home after a connected device's last recorded activity, in which
\* the device is reported offline or is missing, leaves it connected and
\* fires no device_disconnected for it; this holds for the first such poll
\* and for every later one inside the window.
C1_GracePeriodKeepsConnected ==
    [][\A m \in Tracked :
          ( /\ lastOp' = "ok"
            /\ devs[m].connected
            /\ lastSeen[m] # NoTime
            /\ now' - lastSeen[m] < options.consider_home
            /\ pollSeen'[m] \in {"offline", "absent"} )
          => /\ devs'[m].connected
             /\ Fired(pollEvents', EVENT_DEVICE_DISCONNECTED, m) = 0]_vars

\* C1 witness: a device still connected after a second poll inside the window
\* that did not report it online (its attributes were reset by an earlier one).
C1_Witness ==
    \E m \in Tracked :
        /\ lastOp = "ok"
        /\ pollSeen[m] = "offline"
        /\ devs[m].connected
        /\ ~LastActivityKnown(devs[m])
        /\ now - lastSeen[m] < options.consider_home

\* C2 - Grace period (liveness), as claimed: once more than consider_home
\* seconds have passed since a connected device's last activity, a successful
\* poll that does not report it online leaves it not connected, and no poll
\* aborts with an error.
C2_ExpiredDeviceGoesOffline ==
    /\ lastOp # "type_error"
    /\ \A m \in Tracked :
          ( /\ lastOp = "ok"
            /\ pollSeen[m] \in {"offline", "absent"}
            /\ lastSeen[m] # NoTime
            /\ now - lastSeen[m] > options.consider_home )
          => ~devs[m].connected

\* C3 - Bounded recency list: the latest-connected list never holds more
\* entries than the configured limit.
C3_LatestListBounded == Len(latestList) <= options.latest_connected

\* C3 witness: a connected_device call that found the list full of other
\* devices, and left it full.
C3_Witness ==
    /\ lastOp = "ok"
    /\ Len(latestList) = options.latest_connected
    /\ \E i \in 1..Len(pollCalls) :
          /\ Len(pollCalls[i].before) = options.latest_connected
          /\ \A j \in 1..Len(pollCalls[i].before) :
                pollCalls[i].before[j].mac # pollCalls[i].mac

\* C4 - Snapshot reconciliation: after a successful update_devices every MAC
\* of the snapshot, normalised, is tracked, every device tracked before is
\* still tracked, and the devices added are exactly the snapshot MACs that
\* were not tracked; no poll, however it ends, drops a device from tracking.
C4_SnapshotReconciled ==
    [][ /\ lastOp' = "ok" =>
            /\ SnapshotMacs(pollSeen') \subseteq Tracked'
            /\ Tracked \subseteq Tracked'
            /\ Tracked' \ Tracked = SnapshotMacs(pollSeen') \ Tracked
        /\ lastOp' \in PollOps => Tracked \subseteq Tracked' ]_vars

\* C4 witness: a successful poll that added a device while a tracked one was
\* missing from the snapshot.
C4_Witness ==
    /\ lastOp = "ok"
    /\ \E m \in Tracked : Fired(pollEvents, EVENT_DEVICE_CONNECTED, m) = 1
    /\ \E m \in Tracked : pollSeen[m] = "absent"

\* The identity dictionaries a connected_device call found in the list and
\* did not keep, the entry of the connecting MAC aside.
Dropped(call) ==
    {call.before[i] : i \in 1..Len(call.before)}
        \ ({call.after[i] : i \in 1..Len(call.after)}
           \cup {e \in {call.before[i] : i \in 1..Len(call.before)} : e.mac = call.mac})

\* The identity dictionaries a connected_device call kept: all but the last.
Kept(call) == {call.after[i] : i \in 1..Len(call.after) - 1}

\* C5 - Most-recently-connected bookkeeping: after connected_device(identity)
\* the list holds exactly one entry with the MAC of identity, the last one;
\* the other entries were in the list before, and every entry dropped has a
\* connection time no later than any entry kept, so the ones dropped are the
\* earliest and the newly connected device is never among them.
C5_LatestConnectedBookkeeping ==
    \A c \in 1..Len(pollCalls) :
        LET call == pollCalls[c]
            n == Len(call.after)
        IN /\ n >= 1
           /\ call.after[n].mac = call.mac
           /\ \A i \in 1..(n - 1) : call.after[i].mac # call.mac
           /\ Kept(call) \subseteq {call.before[i] : i \in 1..Len(call.before)}
           /\ Cardinality(Kept(call)) = n - 1
           /\ \A d \in Dropped(call) : \A k \in Kept(call) :
                 d.connected <= k.connected
           /\ (Dropped(call) # {}) => n = options.latest_connected

\* C5 witness: a call that found the list full, out of order, and dropped the
\* entry with the earliest connection time, which was not the first.
C5_Witness ==
    \E c \in 1..Len(pollCalls) :
        LET call == pollCalls[c]
        IN /\ options.latest_connected = 2
           /\ Len(call.before) = 2
           /\ call.before[1].mac # call.mac
           /\ call.before[2].mac # call.mac
           /\ call.before[1].connected > call.before[2].connected
           /\ Dropped(call) = {call.before[2]}

\* C6 - Failed poll leaves state unchanged: when the fetch raises
\* UpdateFailed the tracked devices, the connected count and list and the
\* latest-connected list and time are unchanged, and no event is fired, no
\* signal sent, no refresh requested.
C6_FailedPollChangesNothing ==
    [][lastOp' = "update_failed" =>
          /\ UNCHANGED <<devs, devOrder, connCount, connList, latestList,
                         latestTime>>
          /\ pollEvents' = <<>>
          /\ pollSignals' = <<>>
          /\ pollRefresh' = FALSE]_vars

\* C6 witness: a failed poll, later than consider_home after the last
\* activity of a device that is still connected.
C6_Witness ==
    /\ lastOp = "update_failed"
    /\ \E m \in Tracked :
          /\ devs[m].connected
          /\ now - lastSeen[m] > options.consider_home

\* C7 - Per-device event alternation: a poll fires device_reconnected for a
\* device exactly when its is_connected goes from false to true, and
\* device_disconnected exactly when it goes from true to false, each at most
\* once; so the last presence event of a device is device_reconnected exactly
\* while it is connected, and the two events alternate, device_reconnected
\* first.
C7_EventsFollowTransitions ==
    [][lastOp' \in PollOps =>
          \A m \in MACS :
             LET was == IsConnected(devs, m)
                 is == IsConnected(devs', m)
                 re == Fired(pollEvents', EVENT_DEVICE_RECONNECTED, m)
                 dis == Fired(pollEvents', EVENT_DEVICE_DISCONNECTED, m)
             IN /\ re = (IF ~was /\ is THEN 1 ELSE 0)
                /\ dis = (IF was /\ ~is THEN 1 ELSE 0)
                /\ re = 1 => lastEvent[m] # EVENT_DEVICE_RECONNECTED
                /\ dis = 1 => lastEvent[m] = EVENT_DEVICE_RECONNECTED
                /\ is <=> lastEvent'[m] = EVENT_DEVICE_RECONNECTED]_vars

\* C7 witness: one poll in which a device reconnected and another, which had
\* reconnected before, disconnected.
C7_Witness ==
    /\ lastOp = "ok"
    /\ \E m1, m2 \in Tracked :
          /\ Fired(pollEvents, EVENT_DEVICE_RECONNECTED, m1) = 1
          /\ Fired(pollEvents, EVENT_DEVICE_DISCONNECTED, m2) = 1

\* C8 - connected implies last activity known, as claimed: a connected device
\* has a last-activity attribute that is present and not None.
C8_ConnectedHasLastActivity ==
    \A m \in Tracked : devs[m].connected => LastActivityKnown(devs[m])

\* C9 - Absent and reported-offline are treated alike, as claimed: from the
\* same device state, consider_home and time, a poll without the device and a
\* poll with the device reported offline give the same is_connected, ip and
\* attributes, fire the same events and end alike.
C9_AbsentLikeOffline ==
    \A m \in Tracked :
        LET absent == DeviceUpdate(devs[m], NoInfo, options.consider_home, now)
            offline == DeviceUpdate(devs[m], OfflineInfo, options.consider_home, now)
        IN /\ absent.dev.connected = offline.dev.connected
           /\ absent.dev.ip = offline.dev.ip
           /\ absent.dev.attrs = offline.dev.attrs
           /\ absent.events = offline.events
           /\ absent.raised = offline.raised

\* C10 - device_connected is fired once per discovery, as claimed: in a poll
\* that obtained a snapshot, a MAC of the snapshot that was not tracked gets
\* exactly one device_connected, fired after every device_reconnected and
\* device_disconnected of the poll, and a MAC that was tracked gets none.
C10_ConnectedOncePerDiscovery ==
    [][Polled' =>
          /\ \A m \in MACS :
                Fired(pollEvents', EVENT_DEVICE_CONNECTED, m) =
                   (IF m \in SnapshotMacs(pollSeen') \ Tracked THEN 1 ELSE 0)
          /\ \A i, j \in 1..Len(pollEvents') :
                ( /\ pollEvents'[i][1] = EVENT_DEVICE_CONNECTED
                  /\ pollEvents'[j][1] # EVENT_DEVICE_CONNECTED ) => j < i]_vars

\* The same for the polls that ran to their end.
DiscoveryInCompletedPolls ==
    [][lastOp' = "ok" =>
          /\ \A m \in MACS :
                Fired(pollEvents', EVENT_DEVICE_CONNECTED, m) =
                   (IF m \in SnapshotMacs(pollSeen') \ Tracked THEN 1 ELSE 0)
          /\ \A i, j \in 1..Len(pollEvents') :
                ( /\ pollEvents'[i][1] = EVENT_DEVICE_CONNECTED
                  /\ pollEvents'[j][1] # EVENT_DEVICE_CONNECTED ) => j < i]_vars

\* C11 - device_connected only for connected devices, as claimed: a device
\* for which the step just taken fired device_connected is connected; a
\* device first seen in the snapshot with online false gets no
\* device_connected.
C11_ConnectedEventOnlyForConnected ==
    \A i \in 1..Len(pollEvents) :
        pollEvents[i][1] = EVENT_DEVICE_CONNECTED
           => IsConnected(devs, pollEvents[i][2])

\* C12 - device_reconnected only for known devices, as claimed: a poll fires
\* device_reconnected only for a device that was tracked before the poll and
\* was not connected; a device discovered by the poll gets device_connected
\* and no device_reconnected.
C12_ReconnectedOnlyForKnown ==
    [][Polled' =>
          \A m \in MACS :
             Fired(pollEvents', EVENT_DEVICE_RECONNECTED, m) > 0
                => /\ m \in Tracked
                   /\ ~devs[m].connected]_vars

\* The tracked devices that are connected.
ConnectedMacs == {m \in Tracked : devs[m].connected}

SortedByTime(ids) ==
    \A i, j \in 1..Len(ids) : i < j => ids[i].connected <= ids[j].connected

\* C14 - Latest-connected time is the newest, as claimed: after every
\* connected_device call and after every poll, when the latest-connected list
\* is not empty, _latest_connected is the greatest connection time among its
\* entries and the list is in non-decreasing order of connection time.
C14_LatestTimeIsNewest ==
    /\ \A c \in 1..Len(pollCalls) : SortedByTime(pollCalls[c].after)
    /\ latestList # <<>> =>
          LET ids == Contents(latestList, devs)
          IN /\ SortedByTime(ids)
             /\ \A i \in 1..Len(ids) : ids[i].connected <= latestTime
             /\ \E i \in 1..Len(ids) : ids[i].connected = latestTime

\* How many times the step just taken logged the message.
Logged(logs, msg) == Cardinality({i \in 1..Len(logs) : logs[i] = msg})

\* C15 - Error flag and one log per outage: _connect_error is true exactly
\* when the fetch of the most recent poll raised UpdateFailed; a failed poll
\* logs the connection error exactly when the poll before it had not failed,
\* and a poll whose fetch returned logs "Reconnected" exactly when the poll
\* before it had failed, so once per run of failures and never after a
\* success that follows a success.
C15_ErrorFlagAndLogs ==
    [][ /\ connectError' = (lastFetch' = "failed")
        /\ lastOp' \in PollOps =>
              LET failed == lastOp' = "update_failed"
              IN /\ connectError' = failed
                 /\ Logged(pollLogs', LOG_ERROR) =
                       (IF failed /\ lastFetch # "failed" THEN 1 ELSE 0)
                 /\ Logged(pollLogs', LOG_RECONNECTED) =
                       (IF ~failed /\ lastFetch = "failed" THEN 1 ELSE 0) ]_vars

\* C15 witness: the first poll after an outage logs "Reconnected" and
\* disconnects a device whose window ran out meanwhile.
C15_Witness ==
    /\ lastOp = "ok"
    /\ pollLogs = <<LOG_RECONNECTED>>
    /\ \E m \in Tracked : Fired(pollEvents, EVENT_DEVICE_DISCONNECTED, m) = 1

\* A second failed poll in a row, which logs nothing.
SilentFailure ==
    /\ lastOp = "update_failed"
    /\ pollLogs = <<>>

\* C16 - Binary-sensor set depends only on the entry's own options, as
\* claimed: the descriptions handed over for an entry are those of the fresh
\* module dictionary set up with the entry's options: the WAN status sensor
\* alone with enable_control on; with it off the WAN, VPN client and server,
\* WLAN, guest-WLAN and parental-control sensors, passwords hidden exactly
\* when hide_passwords is set.  So equal options give equal sets.
C16_SensorsFromOwnOptions ==
    \A e \in DOMAIN handed :
        handed[e] = SetupSensors(WanSensors, entryOptions[e])

====
